---------------------------- MODULE Spec2Model ----------------------------
(*************************************************************************)
(* A model of the utility functions of src/main.js: deepClone, debounce, *)
(* flatten, deepEqual, toCamelCase, memoize, parseQuery and curry.       *)
(* The functions are independent, so each has its own variables and its  *)
(* own specification; a specification leaves the other functions'        *)
(* variables at their idle values.                                       *)
(*************************************************************************)
EXTENDS Integers, Sequences, FiniteSets, TLC

VARIABLES
    \* debounce: the host clock and timer table, the closure's timeoutId,
    \* and the logs of the calls to the wrapper and of the calls to func
    now, delay, timeoutId, timers, nextTimer, calls, invoked,
    \* memoize: the closure's cache, the log of what the wrapper and fn did,
    \* and the calls to the wrapper that are inside fn
    cache, memoLog, memoStack,
    \* curry: the arity of fn, the callables handed out so far, the log of
    \* the calls to fn
    arity, partials, fnLog, curryCalls,
    \* parseQuery and toCamelCase: the input string and what the call gave
    text, textOut,
    \* flatten: the arrays the caller built, and the array flatten returned
    arrays, flatIn, flatOut,
    \* deepClone and deepEqual: the heap of objects, and what the call gave
    heap, scOut

dbVars == <<now, delay, timeoutId, timers, nextTimer, calls, invoked>>
memoVars == <<cache, memoLog, memoStack>>
curryVars == <<arity, partials, fnLog, curryCalls>>
textVars == <<text, textOut>>
flatVars == <<arrays, flatIn, flatOut>>
structVars == <<heap, scOut>>
vars == <<dbVars, memoVars, curryVars, textVars, flatVars, structVars>>

-----------------------------------------------------------------------------
(* Idle values: what a specification gives the variables it does not use. *)

DebounceIdle ==
    /\ now = 0 /\ delay = 0 /\ timeoutId = 0 /\ timers = {} /\ nextTimer = 1
    /\ calls = <<>> /\ invoked = <<>>

MemoIdle == cache = <<>> /\ memoLog = <<>> /\ memoStack = <<>>

CurryIdle == arity = 0 /\ partials = {} /\ fnLog = {} /\ curryCalls = 0

TextIdle == text = <<>> /\ textOut = [op |-> "none"]

FlatIdle == arrays = <<>> /\ flatIn = <<>> /\ flatOut = 0

StructIdle == heap = <<>> /\ scOut = [op |-> "none"]

OthersIdle(db, memo, cur, txt, flat, struct) ==
    /\ db \/ DebounceIdle
    /\ memo \/ MemoIdle
    /\ cur \/ CurryIdle
    /\ txt \/ TextIdle
    /\ flat \/ FlatIdle
    /\ struct \/ StructIdle

\* Each utility leaves the state of the others alone.
DebounceOnly == UNCHANGED <<memoVars, curryVars, textVars, flatVars, structVars>>
MemoOnly == UNCHANGED <<dbVars, curryVars, textVars, flatVars, structVars>>
CurryOnly == UNCHANGED <<dbVars, memoVars, textVars, flatVars, structVars>>
TextOnly == UNCHANGED <<dbVars, memoVars, curryVars, flatVars, structVars>>
FlatOnly == UNCHANGED <<dbVars, memoVars, curryVars, textVars, structVars>>
StructOnly == UNCHANGED <<dbVars, memoVars, curryVars, textVars, flatVars>>

-----------------------------------------------------------------------------
(* debounce(func, delay), src/main.js 24-30.                              *)
(* Time is counted in ticks.  The host keeps a table of pending timers;   *)
(* a timer carries the closure it will run: the arguments and the calling *)
(* context of the call to the wrapper that created it.                    *)

MaxTime == 3
MaxDelay == 2
MaxCalls == 3
ArgVals == {"x", "y"}
Contexts == {"o1", "o2"}

\* clearTimeout(id): the timer with that handle leaves the table; an
\* undefined (0), fired or unknown handle changes nothing.
ClearTimeoutDropsNothing(ts, id) == ts
ClearTimeout(ts, id) == {tm \in ts : tm.id # id}

\* The time a timer set at time t with delay d becomes due.
TimerDueAtOnce(t, d) == t
TimerDue(t, d) == t + d

\* setTimeout(() => func.apply(this, args), delay): a new timer in the table.
SetTimeout(ts, id, t, d, args, ctx, call) ==
    ts \cup {[id |-> id, due |-> TimerDue(t, d), args |-> args, ctx |-> ctx,
              call |-> call]}

\* The wrapper returned by debounce, called with args on context ctx.
DebouncedCall(args, ctx) ==
    /\ Len(calls) < MaxCalls
    /\ timers' = SetTimeout(ClearTimeout(timers, timeoutId), nextTimer, now,
                            delay, args, ctx, Len(calls) + 1)
    /\ timeoutId' = nextTimer
    /\ nextTimer' = nextTimer + 1
    /\ calls' = Append(calls, [t |-> now, args |-> args, ctx |-> ctx])
    /\ UNCHANGED <<now, delay, invoked>>

\* The host runs a due timer's callback: func.apply(this, args).
TimerFire(tm) ==
    /\ tm.due <= now
    /\ timers' = timers \ {tm}
    /\ invoked' = Append(invoked, [t |-> now, args |-> tm.args, ctx |-> tm.ctx,
                                   call |-> tm.call, ncalls |-> Len(calls)])
    /\ UNCHANGED <<now, delay, timeoutId, nextTimer, calls>>

\* The clock advances by one tick.
Tick ==
    /\ now < MaxTime
    /\ now' = now + 1
    /\ UNCHANGED <<delay, timeoutId, timers, nextTimer, calls, invoked>>

DebounceInit ==
    /\ now = 0 /\ delay \in 0..MaxDelay /\ timeoutId = 0 /\ timers = {}
    /\ nextTimer = 1 /\ calls = <<>> /\ invoked = <<>>
    /\ OthersIdle(TRUE, FALSE, FALSE, FALSE, FALSE, FALSE)

\* The host runs a timer's callback when the timer is due or later: a due
\* timer waits while the clock moves on and while the running task, which
\* may call the wrapper again, goes on.
DebounceNext ==
    \/ \E a \in ArgVals, c \in Contexts : DebouncedCall(a, c) /\ DebounceOnly
    \/ \E tm \in timers : TimerFire(tm) /\ DebounceOnly
    \/ Tick /\ DebounceOnly

SpecDebounce == DebounceInit /\ [][DebounceNext]_vars

\* The invocations of func made while call i was the most recent call.
InvFor(i) == {k \in 1..Len(invoked) : invoked[k].ncalls = i}

\* Call i ends its burst: no call follows it less than delay later.
LastOfBurst(i) == i = Len(calls) \/ calls[i + 1].t - calls[i].t >= delay

\* The quiet period after call i is over.
QuietOver(i) == i < Len(calls) \/ now > calls[i].t + delay

\* C1 as stated: a burst of calls, each less than delay after the one
\* before, leads to exactly one invocation of func: none while the burst
\* goes on, one once the quiet period after its last call is over, made
\* delay after that last call with that call's arguments and calling
\* context.
C1_BurstInvokesOnce ==
    \A i \in 1..Len(calls) :
        /\ ~LastOfBurst(i) => InvFor(i) = {}
        /\ Cardinality(InvFor(i)) <= 1
        /\ (LastOfBurst(i) /\ QuietOver(i)) => Cardinality(InvFor(i)) = 1
        /\ \A k \in InvFor(i) :
              /\ invoked[k].t = calls[i].t + delay
              /\ invoked[k].args = calls[i].args
              /\ invoked[k].ctx = calls[i].ctx

\* C1 as amended: a call made while the invocation scheduled by the call
\* before it is pending (as every call made less than delay after the one
\* before is) takes that invocation's place.  So func is invoked at most
\* once per call, never for a call that another followed in less than
\* delay, not earlier than delay after the call, and with that call's
\* arguments and calling context; as long as the last call's invocation
\* has not run, it is the one invocation pending.
C1_RunInvokesAtMostOnce ==
    \A i \in 1..Len(calls) :
        /\ ~LastOfBurst(i) => InvFor(i) = {}
        /\ Cardinality(InvFor(i)) <= 1
        /\ \A k \in InvFor(i) :
              /\ invoked[k].t >= calls[i].t + delay
              /\ invoked[k].args = calls[i].args
              /\ invoked[k].ctx = calls[i].ctx
        /\ (i = Len(calls) /\ InvFor(i) = {}) =>
              timers = {[id |-> timeoutId, due |-> calls[i].t + delay,
                         args |-> calls[i].args, ctx |-> calls[i].ctx,
                         call |-> i]}

\* A burst of two calls with different arguments and contexts, a tick
\* apart, has led to one invocation, delay after the second call, with
\* the second call's arguments and context.
C1_Witness ==
    /\ Len(calls) = 2 /\ Len(invoked) = 1
    /\ calls[1].args # calls[2].args /\ calls[1].ctx # calls[2].ctx
    /\ calls[1].t < calls[2].t /\ calls[2].t - calls[1].t < delay
    /\ invoked[1].ncalls = 2 /\ invoked[1].t = calls[2].t + delay
    /\ invoked[1].args = calls[2].args /\ invoked[1].ctx = calls[2].ctx
    /\ timers = {}

\* C2: at most one invocation is pending, and a superseded one never runs:
\* every invocation of func comes from the timer of the most recent call
\* to the wrapper and carries that call's arguments, and no call's timer
\* runs twice.
C2_OnePendingNoStaleFire ==
    /\ Cardinality(timers) <= 1
    /\ \A k \in 1..Len(invoked) :
          /\ invoked[k].call = invoked[k].ncalls
          /\ invoked[k].args = calls[invoked[k].ncalls].args
          /\ \A j \in 1..Len(invoked) : invoked[j].call = invoked[k].call => j = k

\* A call superseded an invocation that was already due, and the
\* invocation that ran afterwards was the superseding call's.
C2_Witness ==
    /\ Len(calls) >= 2 /\ Len(invoked) >= 1
    /\ calls[2].t >= calls[1].t + delay
    /\ calls[1].args # calls[2].args
    /\ invoked[1].ncalls = 2 /\ invoked[1].args = calls[2].args

-----------------------------------------------------------------------------
(* memoize(fn), src/main.js 67-76.                                        *)
(* A JavaScript value is a record of its type, its text and, for an       *)
(* object, its identity a (0 for a primitive); the cache is a function    *)
(* from keys (strings) to results.  fn is the caller's: an invocation of  *)
(* fn may call the wrapper again before it ends, and it ends by returning *)
(* a result or by throwing.                                               *)

MaxMemoCalls == 3
MaxMemoDepth == 2

Num(n) == [ty |-> "number", v |-> ToString(n), a |-> 0]
NaN == [ty |-> "number", v |-> "NaN", a |-> 0]
Str(s) == [ty |-> "string", v |-> s, a |-> 0]
Null == [ty |-> "null", v |-> "null", a |-> 0]
Undefined == [ty |-> "undefined", v |-> "undefined", a |-> 0]

\* The argument lists the wrapper is called with.
MemoArgLists ==
    { <<Num(2), Num(3)>>, <<Num(3), Num(2)>>, <<Str("2"), Num(3)>>,
      <<Null>>, <<Undefined>>, <<NaN>> }

\* What fn may return: fn may be non-deterministic.
FnResults == {"r1", "r2"}

\* JSON.stringify of one element of an array: a number by its digits (NaN
\* as null), a string quoted, null and undefined as null.
JSONElement(x) ==
    CASE x.ty = "number" -> IF x.v = "NaN" THEN "null" ELSE x.v
      [] x.ty = "string" -> "\"" \o x.v \o "\""
      [] OTHER -> "null"

RECURSIVE JSONJoin(_)
JSONJoin(args) ==
    IF Len(args) = 0 THEN ""
    ELSE IF Len(args) = 1 THEN JSONElement(args[1])
    ELSE JSONElement(args[1]) \o "," \o JSONJoin(Tail(args))

\* JSON.stringify(args) of an argument list.
JSONStringify(args) == "[" \o JSONJoin(args) \o "]"

\* cache.has(key), and the variant that never finds the key.
CacheNeverHas(c, key) == FALSE
CacheHas(c, key) == key \in DOMAIN c

\* cache.set(key, value)
CacheSet(c, key, value) ==
    [k \in DOMAIN c \cup {key} |-> IF k = key THEN value ELSE c[k]]

\* The calls to the wrapper so far.
MemoCalls == {p \in 1..Len(memoLog) : memoLog[p].ev \in {"hit", "invoke"}}

\* The wrapper returned by memoize, called with args, by the caller or by
\* fn while it runs: lines 70-71, and with the key in the cache line 74;
\* without it the call goes into fn.apply(this, args) of line 72.
MemoizedCall(args) ==
    LET key == JSONStringify(args)
        id == Cardinality(MemoCalls) + 1
    IN /\ Cardinality(MemoCalls) < MaxMemoCalls
       /\ IF CacheHas(cache, key)
          THEN /\ memoLog' = Append(memoLog, [ev |-> "hit", id |-> id,
                                    args |-> args, key |-> key,
                                    value |-> cache[key]])
               /\ UNCHANGED memoStack
          ELSE /\ Len(memoStack) < MaxMemoDepth
               /\ memoLog' = Append(memoLog, [ev |-> "invoke", id |-> id,
                                    args |-> args, key |-> key,
                                    value |-> "none"])
               /\ memoStack' = Append(memoStack, [id |-> id, args |-> args,
                                                   key |-> key])
       /\ UNCHANGED cache

\* The innermost running fn returns r: cache.set(key, r) of line 72, with
\* the key line 70 computed, and return cache.get(key) of line 74.
FnReturns(r) ==
    /\ memoStack # <<>>
    /\ LET top == memoStack[Len(memoStack)]
           c2 == CacheSet(cache, top.key, r)
       IN /\ cache' = c2
          /\ memoLog' = Append(memoLog, [ev |-> "return", id |-> top.id,
                               args |-> top.args, key |-> top.key,
                               value |-> c2[top.key]])
    /\ memoStack' = SubSeq(memoStack, 1, Len(memoStack) - 1)

\* The innermost running fn throws: the exception leaves line 72 before
\* cache.set is called, and leaves the wrapper.
FnThrows ==
    /\ memoStack # <<>>
    /\ LET top == memoStack[Len(memoStack)]
       IN memoLog' = Append(memoLog, [ev |-> "throw", id |-> top.id,
                            args |-> top.args, key |-> top.key,
                            value |-> "none"])
    /\ memoStack' = SubSeq(memoStack, 1, Len(memoStack) - 1)
    /\ UNCHANGED cache

MemoInit ==
    /\ cache = <<>> /\ memoLog = <<>> /\ memoStack = <<>>
    /\ OthersIdle(FALSE, TRUE, FALSE, FALSE, FALSE, FALSE)

MemoNext ==
    \/ \E args \in MemoArgLists : MemoizedCall(args) /\ MemoOnly
    \/ \E r \in FnResults : FnReturns(r) /\ MemoOnly
    \/ FnThrows /\ MemoOnly

SpecMemoize == MemoInit /\ [][MemoNext]_vars

\* The keys of the calls so far.
MemoKeys == {memoLog[p].key : p \in 1..Len(memoLog)}

\* Where fn was invoked for key k, and where a result was stored under k.
Invokes(k) == {p \in 1..Len(memoLog) :
                  memoLog[p].ev = "invoke" /\ memoLog[p].key = k}
Writes(k) == {p \in 1..Len(memoLog) :
                 memoLog[p].ev = "return" /\ memoLog[p].key = k}

\* The last place of a non-empty set of places.
LastOf(ps) == CHOOSE p \in ps : \A q \in ps : q <= p

\* Where the invocation of fn began that ended at place p.
StartOf(p) ==
    CHOOSE q \in 1..Len(memoLog) :
        memoLog[q].ev = "invoke" /\ memoLog[q].id = memoLog[p].id

\* The first call with key k, among the calls so far.
FirstWithKey(k) ==
    CHOOSE p \in MemoCalls :
        /\ memoLog[p].key = k
        /\ \A q \in MemoCalls : memoLog[q].key = k => p <= q

\* C3 as stated: of the calls with one key only the first invokes fn, and
\* every later one returns the result the first one's fn gave; fn is
\* invoked at most once per key, and what is stored under a key never
\* changes.
C3_OncePerKey ==
    \A k \in MemoKeys :
        LET f == FirstWithKey(k)
        IN /\ Cardinality(Invokes(k)) <= 1
           /\ \A p, q \in Writes(k) : memoLog[p].value = memoLog[q].value
           /\ \A p \in MemoCalls :
                 (memoLog[p].key = k /\ p # f) =>
                    /\ memoLog[p].ev = "hit"
                    /\ \E w \in Writes(k) :
                          /\ memoLog[w].id = memoLog[f].id
                          /\ memoLog[p].value = memoLog[w].value

\* C3 as amended: a call invokes fn exactly when nothing has been stored
\* under its key before it, so fn is never invoked for a key after a
\* result was stored under it; a call whose key has an entry returns what
\* was stored last and does not invoke fn.  An invocation that returns
\* stores its result and returns it; one that throws stores nothing, so
\* the key has an entry afterwards only if another invocation stored one.
\* An entry is overwritten only by an invocation for its key that was
\* already running when the entry was written.
C3_NoInvocationAfterStore ==
    /\ \A p \in 1..Len(memoLog) :
          LET k == memoLog[p].key
              before == {w \in Writes(k) : w < p}
          IN /\ memoLog[p].ev = "invoke" => before = {}
             /\ memoLog[p].ev = "hit" =>
                   /\ before # {}
                   /\ memoLog[p].value = memoLog[LastOf(before)].value
             /\ memoLog[p].ev = "return" =>
                   /\ \A w \in before : StartOf(p) < w
                   /\ memoLog[p].value \in FnResults
             /\ memoLog[p].ev = "throw" =>
                   \A w \in Writes(k) : memoLog[w].id # memoLog[p].id
    /\ \A k \in MemoKeys : (k \in DOMAIN cache) <=> (Writes(k) # {})
    /\ \A k \in DOMAIN cache :
          /\ Writes(k) # {}
          /\ cache[k] = memoLog[LastOf(Writes(k))].value

\* fn, invoked for (2, 3), called the wrapper with (2, 3) and was invoked
\* again; the inner invocation returned r1, the outer one r2 and overwrote
\* the entry; the next call with (2, 3) got r2 without invoking fn.
C3_Witness ==
    /\ Len(memoLog) = 5
    /\ \A p \in 1..5 : memoLog[p].args = <<Num(2), Num(3)>>
    /\ memoLog[1].ev = "invoke" /\ memoLog[2].ev = "invoke"
    /\ memoLog[3].ev = "return" /\ memoLog[3].id = 2 /\ memoLog[3].value = "r1"
    /\ memoLog[4].ev = "return" /\ memoLog[4].id = 1 /\ memoLog[4].value = "r2"
    /\ memoLog[5].ev = "hit" /\ memoLog[5].value = "r2"
    /\ cache[JSONStringify(<<Num(2), Num(3)>>)] = "r2"

\* fn, invoked for (2, 3), called the wrapper with (2, 3); the inner
\* invocation returned r1 and the outer one threw; the next call with
\* (2, 3) got r1 without invoking fn.
C3_WitnessThrowAfterStore ==
    /\ Len(memoLog) = 5
    /\ \A p \in 1..5 : memoLog[p].args = <<Num(2), Num(3)>>
    /\ memoLog[1].ev = "invoke" /\ memoLog[2].ev = "invoke"
    /\ memoLog[3].ev = "return" /\ memoLog[3].id = 2 /\ memoLog[3].value = "r1"
    /\ memoLog[4].ev = "throw" /\ memoLog[4].id = 1
    /\ memoLog[5].ev = "hit" /\ memoLog[5].value = "r1"

\* fn threw for (null), nothing was stored, and the next call, with
\* (undefined), which has the same key, invoked fn again.
C3_WitnessThrow ==
    /\ Len(memoLog) = 4
    /\ memoLog[1].ev = "invoke" /\ memoLog[1].args = <<Null>>
    /\ memoLog[2].ev = "throw"
    /\ memoLog[3].ev = "invoke" /\ memoLog[3].args = <<Undefined>>
    /\ memoLog[4].ev = "return" /\ memoLog[4].value = "r1"
    /\ cache[JSONStringify(<<Null>>)] = "r1"

-----------------------------------------------------------------------------
(* curry(fn), src/main.js 94-104.                                         *)
(* A callable is the argument list its closure holds (empty for curried   *)
(* itself); chain is the history of the calls that led to it.             *)

MaxArity == 3
MaxCurryCalls == 4

CurryArgLists == { <<>>, <<1>>, <<2>>, <<1, 2>>, <<3, 1>> }

RECURSIVE Concat(_)
Concat(lists) ==
    IF Len(lists) = 0 THEN <<>> ELSE lists[1] \o Concat(Tail(lists))

RECURSIVE SumFirst(_, _)
SumFirst(args, n) ==
    IF n = 0 \/ Len(args) = 0 THEN 0 ELSE args[1] + SumFirst(Tail(args), n - 1)

\* fn: the sum of its declared parameters, as (a, b, c) => a + b + c.
Fn(args) == SumFirst(args, arity)

\* args.concat(moreArgs), and the variant that puts the new arguments first.
ArgsConcatReversed(args, moreArgs) == moreArgs \o args
ArgsConcat(args, moreArgs) == args \o moreArgs

\* args.length >= fn.length.
EnoughArgs(args) == Len(args) >= arity

\* curried(...args): fn's result, or a new callable holding args.
Curried(args) ==
    IF EnoughArgs(args)
    THEN [done |-> TRUE, value |-> Fn(args), args |-> args]
    ELSE [done |-> FALSE, value |-> 0, args |-> args]

\* A callable p is called with more: curried itself (p.acc empty) runs
\* curried(more); a callable returned earlier runs
\* curried.apply(this, args.concat(moreArgs)).
CurryCall(p, more) ==
    LET r == Curried(ArgsConcat(p.acc, more))
        ch == Append(p.chain, more)
    IN /\ curryCalls < MaxCurryCalls
       /\ curryCalls' = curryCalls + 1
       /\ IF r.done
          THEN /\ fnLog' = fnLog \cup {[args |-> r.args, chain |-> ch,
                                        ret |-> r.value]}
               /\ UNCHANGED partials
          ELSE /\ partials' = partials \cup {[acc |-> r.args, chain |-> ch]}
               /\ UNCHANGED fnLog
       /\ UNCHANGED arity

CurryInit ==
    /\ arity \in 0..MaxArity
    /\ partials = {[acc |-> <<>>, chain |-> <<>>]}
    /\ fnLog = {} /\ curryCalls = 0
    /\ OthersIdle(FALSE, FALSE, TRUE, FALSE, FALSE, FALSE)

CurryNext ==
    \E p \in partials, more \in CurryArgLists : CurryCall(p, more) /\ CurryOnly

SpecCurry == CurryInit /\ [][CurryNext]_vars

\* The chain without its last call.
Front(ch) == SubSeq(ch, 1, Len(ch) - 1)

\* C7: fn is invoked by the call of a chain with which the number of
\* arguments first reaches the arity, with the arguments of the chain in
\* call order, and its result is returned; until then each call returns a
\* callable that holds the chain's arguments so far.  What a chain yields
\* depends on that chain alone.
C7_ChainCompletes ==
    /\ \A e \in fnLog :
          /\ e.args = Concat(e.chain)
          /\ Len(e.args) >= arity
          /\ Len(e.chain) = 1 \/ Len(Concat(Front(e.chain))) < arity
          /\ e.ret = SumFirst(Concat(e.chain), arity)
    /\ \A p \in partials :
          /\ p.acc = Concat(p.chain)
          /\ p.chain # <<>> => Len(p.acc) < arity

\* With arity 3, the partial f(1) was completed twice with different
\* remaining arguments: f(1)(2)(3, 1) gave 6 and f(1)(1, 2) gave 4.
C7_Witness ==
    /\ arity = 3
    /\ [acc |-> <<1>>, chain |-> <<<<1>>>>] \in partials
    /\ \E e \in fnLog : e.chain = <<<<1>>, <<2>>, <<3, 1>>>> /\ e.ret = 6
    /\ \E e \in fnLog : e.chain = <<<<1>>, <<1, 2>>>> /\ e.ret = 4

-----------------------------------------------------------------------------
(* parseQuery(queryString), src/main.js 79-91, and toCamelCase(str),      *)
(* src/main.js 60-64.  A string is a sequence of one-character strings.   *)

MaxTextLen == 5

Alphabet == {"?", "&", "=", "%", "2", "k", "K", "-"}

Strings(n) == UNION {[1..m -> Alphabet] : m \in 0..n}

\* The value of a hexadecimal digit, -1 for any other character.
HexVal(c) ==
    CASE c = "0" -> 0 [] c = "1" -> 1 [] c = "2" -> 2 [] c = "3" -> 3
      [] c = "4" -> 4 [] c = "5" -> 5 [] c = "6" -> 6 [] c = "7" -> 7
      [] c = "8" -> 8 [] c = "9" -> 9
      [] c \in {"a", "A"} -> 10 [] c \in {"b", "B"} -> 11
      [] c \in {"c", "C"} -> 12 [] c \in {"d", "D"} -> 13
      [] c \in {"e", "E"} -> 14 [] c \in {"f", "F"} -> 15
      [] OTHER -> -1

\* The character %XX stands for, for the codes the Alphabet can spell; none
\* of them is above 0x7F, so no escape opens a multi-byte sequence.
CharOfCode(n) ==
    CASE n = 34 -> "\"" [] n = 32 -> " " [] n = 2 -> "<STX>" [] n = 0 -> "<NUL>"
      [] OTHER -> "<other>"

\* An escape starts at s[i]: a "%" followed by two hexadecimal digits.
EscapeAt(s, i) ==
    /\ s[i] = "%" /\ i + 2 <= Len(s)
    /\ HexVal(s[i + 1]) >= 0 /\ HexVal(s[i + 2]) >= 0

\* decodeURIComponent(s) from position i on: [threw, str].  A "%" that no
\* two hexadecimal digits follow raises URIError.
RECURSIVE DecodeFrom(_, _)
DecodeFrom(s, i) ==
    IF i > Len(s) THEN [threw |-> FALSE, str |-> <<>>]
    ELSE IF s[i] # "%"
    THEN LET r == DecodeFrom(s, i + 1)
         IN [threw |-> r.threw, str |-> <<s[i]>> \o r.str]
    ELSE IF ~EscapeAt(s, i) THEN [threw |-> TRUE, str |-> <<>>]
    ELSE LET r == DecodeFrom(s, i + 3)
             c == CharOfCode(16 * HexVal(s[i + 1]) + HexVal(s[i + 2]))
         IN [threw |-> r.threw, str |-> <<c>> \o r.str]

DecodeURIComponent(s) == DecodeFrom(s, 1)

\* The index of the first sep in s at or after i, 0 if there is none.
RECURSIVE IndexOf(_, _, _)
IndexOf(s, sep, i) ==
    IF i > Len(s) THEN 0
    ELSE IF s[i] = sep THEN i
    ELSE IndexOf(s, sep, i + 1)

\* s.split(sep): the pieces between the separators; at least one piece.
RECURSIVE Split(_, _)
Split(s, sep) ==
    LET i == IndexOf(s, sep, 1)
    IN IF i = 0 THEN <<s>>
       ELSE <<SubSeq(s, 1, i - 1)>> \o Split(SubSeq(s, i + 1, Len(s)), sep)

\* const [key, value] = pair.split('='): the first two pieces; value is
\* undefined (here: absent) when there is one piece only.
KeyValue(pair) ==
    LET pieces == Split(pair, "=")
    IN [key |-> pieces[1], hasValue |-> Len(pieces) >= 2,
        value |-> IF Len(pieces) >= 2 THEN pieces[2] ELSE <<>>]

\* params[k] = v
ParamsSet(params, k, v) ==
    [x \in DOMAIN params \cup {k} |-> IF x = k THEN v ELSE params[x]]

\* The forEach of parseQuery over pairs[i..]: [threw, params].  An empty
\* key is skipped before anything is decoded; an absent or empty value
\* gives '' without being decoded.
RECURSIVE ParsePairs(_, _, _)
ParsePairs(pairs, i, params) ==
    IF i > Len(pairs) THEN [threw |-> FALSE, params |-> params]
    ELSE LET kv == KeyValue(pairs[i])
             k == DecodeURIComponent(kv.key)
             v == IF kv.hasValue /\ kv.value # <<>>
                  THEN DecodeURIComponent(kv.value)
                  ELSE [threw |-> FALSE, str |-> <<>>]
         IN IF kv.key = <<>> THEN ParsePairs(pairs, i + 1, params)
            ELSE IF k.threw \/ v.threw THEN [threw |-> TRUE, params |-> <<>>]
            ELSE ParsePairs(pairs, i + 1, ParamsSet(params, k.str, v.str))

\* queryString.startsWith('?') ? queryString.slice(1) : queryString
StripQuestionMark(s) ==
    IF Len(s) >= 1 /\ s[1] = "?" THEN SubSeq(s, 2, Len(s)) ELSE s

ParseQuery(s) == ParsePairs(Split(StripQuestionMark(s), "&"), 1, <<>>)

\* [-_\s]: the delimiters of toCamelCase.
IsDelimiter(c) == c \in {"-", "_", " ", "\t", "\n"}

ToUpperCase(c) == IF c = "k" THEN "K" ELSE c
ToLowerCase(c) == IF c = "K" THEN "k" ELSE c

\* The end of the run of delimiters that starts at s[i]: the index of the
\* first character after it.
RECURSIVE RunEnd(_, _)
RunEnd(s, i) ==
    IF i <= Len(s) /\ IsDelimiter(s[i]) THEN RunEnd(s, i + 1) ELSE i

\* str.replace(/[-_\s]+(.)?/g, (_, c) => c ? c.toUpperCase() : '') from
\* position i on.
RECURSIVE ReplaceRuns(_, _)
ReplaceRuns(s, i) ==
    IF i > Len(s) THEN <<>>
    ELSE IF ~IsDelimiter(s[i]) THEN <<s[i]>> \o ReplaceRuns(s, i + 1)
    ELSE LET j == RunEnd(s, i)
         IN IF j > Len(s) THEN <<>>
            ELSE <<ToUpperCase(s[j])>> \o ReplaceRuns(s, j + 1)

\* .replace(/^./, firstChar => firstChar.toLowerCase())
LowerFirst(s) ==
    IF Len(s) = 0 THEN s ELSE <<ToLowerCase(s[1])>> \o Tail(s)

ToCamelCase(s) == LowerFirst(ReplaceRuns(s, 1))

CallParseQuery ==
    /\ textOut.op = "none"
    /\ LET r == ParseQuery(text)
       IN textOut' = [op |-> "parseQuery", threw |-> r.threw, params |-> r.params]
    /\ UNCHANGED text

CallToCamelCase ==
    /\ textOut.op = "none"
    /\ textOut' = [op |-> "toCamelCase", threw |-> FALSE, str |-> ToCamelCase(text)]
    /\ UNCHANGED text

TextInit ==
    /\ text \in Strings(MaxTextLen) /\ textOut = [op |-> "none"]
    /\ OthersIdle(FALSE, FALSE, FALSE, TRUE, FALSE, FALSE)

TextNext ==
    \/ CallParseQuery /\ TextOnly
    \/ CallToCamelCase /\ TextOnly

SpecText == TextInit /\ [][TextNext]_vars

\* Every "%" of s starts an escape.
WellFormed(s) == \A i \in 1..Len(s) : s[i] = "%" => EscapeAt(s, i)

\* The reference of C8, pair by pair, left to right.
RECURSIVE RefPairs(_, _, _)
RefPairs(pairs, i, params) ==
    IF i > Len(pairs) THEN params
    ELSE LET eq == IndexOf(pairs[i], "=", 1)
             key == IF eq = 0 THEN pairs[i] ELSE SubSeq(pairs[i], 1, eq - 1)
             value == IF eq = 0 THEN <<>>
                      ELSE SubSeq(pairs[i], eq + 1, Len(pairs[i]))
         IN IF key = <<>> THEN RefPairs(pairs, i + 1, params)
            ELSE RefPairs(pairs, i + 1,
                          ParamsSet(params, DecodeURIComponent(key).str,
                                    DecodeURIComponent(value).str))

RefParseQuery(s) == RefPairs(Split(StripQuestionMark(s), "&"), 1, <<>>)

\* C8: for a well-formed query string parseQuery returns the mapping of
\* the reference: one leading "?" stripped, pairs split at "&", each pair
\* split at its first "=" (the value is all that follows it), both parts
\* decoded, pairs without a key skipped, a pair without "=" given the
\* value '', a later key overwriting an earlier one.
C8_ParseQueryMatchesReference ==
    (textOut.op = "parseQuery" /\ WellFormed(text)) =>
        /\ ~textOut.threw
        /\ textOut.params = RefParseQuery(text)

\* C10: parseQuery and toCamelCase complete for every input string and
\* return a result; none raises a failure.
C10_NoInputRejected == textOut.op # "none" => ~textOut.threw

-----------------------------------------------------------------------------
(* flatten(arr), src/main.js 33-37.                                       *)
(* arrays is the heap of arrays: arrays[i] is the array with identity i,  *)
(* a sequence of elements; an element is a number or a reference to an    *)
(* array.  The caller builds a nested array rooted at arrays[1], then     *)
(* calls flatten on it.                                                   *)

MaxFlatSize == 5

Atoms == {1, 2}

Atom(v) == [isArray |-> FALSE, v |-> v]
ArrayRef(i) == [isArray |-> TRUE, v |-> i]

\* The number of elements of all arrays together.
RECURSIVE TotalSize(_)
TotalSize(h) == IF h = <<>> THEN 0 ELSE Len(Head(h)) + TotalSize(Tail(h))

\* The caller pushes a number onto array i.
PushAtom(i, v) ==
    /\ flatOut = 0 /\ TotalSize(arrays) < MaxFlatSize
    /\ arrays' = [arrays EXCEPT ![i] = Append(@, Atom(v))]
    /\ UNCHANGED <<flatIn, flatOut>>

\* The caller pushes a new, empty array onto array i.
PushNewArray(i) ==
    /\ flatOut = 0 /\ TotalSize(arrays) < MaxFlatSize
    /\ arrays' = Append([arrays EXCEPT ![i] = Append(@, ArrayRef(Len(arrays) + 1))],
                        <<>>)
    /\ UNCHANGED <<flatIn, flatOut>>

\* The caller pushes an array made later than array i onto array i once
\* more: the nesting stays finite.
PushSameArray(i, j) ==
    /\ flatOut = 0 /\ TotalSize(arrays) < MaxFlatSize
    /\ i < j
    /\ arrays' = [arrays EXCEPT ![i] = Append(@, ArrayRef(j))]
    /\ UNCHANGED <<flatIn, flatOut>>

\* flat.concat(x): a new array, flat followed by the elements of x when x
\* is an array, by x itself when it is not.  x is given as the list of
\* what is appended.
ArrayConcat(flat, x) == flat \o x

\* The recursive call on a nested array, and the variant that does not
\* recurse and appends the nested array's elements as they are.
RECURSIVE FlattenFrom(_, _, _, _)
NestedShallow(h, i) == h[i]
Nested(h, i) == FlattenFrom(h, i, 1, <<>>)

\* arr.reduce((flat, toFlatten) => flat.concat(...), []) from element k on,
\* flat being the accumulator.
FlattenFrom(h, i, k, flat) ==
    IF k > Len(h[i]) THEN flat
    ELSE LET toFlatten == h[i][k]
         IN FlattenFrom(h, i, k + 1,
                ArrayConcat(flat, IF toFlatten.isArray THEN Nested(h, toFlatten.v)
                                  ELSE <<toFlatten>>))

Flatten(h, i) == FlattenFrom(h, i, 1, <<>>)

\* flatten(arrays[1]): the result is a new array of the heap.
CallFlatten ==
    /\ flatOut = 0
    /\ flatIn' = arrays
    /\ arrays' = Append(arrays, Flatten(arrays, 1))
    /\ flatOut' = Len(arrays) + 1

FlatInit ==
    /\ arrays = <<<<>>>> /\ flatIn = <<>> /\ flatOut = 0
    /\ OthersIdle(FALSE, FALSE, FALSE, FALSE, TRUE, FALSE)

FlatNext ==
    \/ \E i \in 1..Len(arrays), v \in Atoms : PushAtom(i, v) /\ FlatOnly
    \/ \E i \in 1..Len(arrays) : PushNewArray(i) /\ FlatOnly
    \/ \E i, j \in 1..Len(arrays) : PushSameArray(i, j) /\ FlatOnly
    \/ CallFlatten /\ FlatOnly

SpecFlatten == FlatInit /\ [][FlatNext]_vars

\* The numbers of a list of elements in depth-first order, left to right.
RECURSIVE Leaves(_, _)
Leaves(h, elems) ==
    IF elems = <<>> THEN <<>>
    ELSE (IF Head(elems).isArray THEN Leaves(h, h[Head(elems).v])
          ELSE <<Head(elems).v>>)
         \o Leaves(h, Tail(elems))

\* C9: flatten returns a new array that holds no array and lists the
\* numbers of the nested array in depth-first order, left to right; the
\* array it was given and the arrays nested in it are as they were.
C9_FlattenDepthFirst ==
    flatOut # 0 =>
        /\ flatOut \notin 1..Len(flatIn)
        /\ \A k \in 1..Len(arrays[flatOut]) : ~arrays[flatOut][k].isArray
        /\ [k \in 1..Len(arrays[flatOut]) |-> arrays[flatOut][k].v]
               = Leaves(flatIn, flatIn[1])
        /\ SubSeq(arrays, 1, Len(flatIn)) = flatIn

\* flatten was applied to an array that holds numbers on both sides of a
\* nested array which itself nests an array: [1, [[2]], 1] gives [1, 2, 1].
C9_Witness ==
    /\ flatOut # 0
    /\ Len(flatIn) = 3
    /\ flatIn[1] = <<Atom(1), ArrayRef(2), Atom(1)>>
    /\ flatIn[2] = <<ArrayRef(3)>>
    /\ flatIn[3] = <<Atom(2)>>
    /\ arrays[flatOut] = <<Atom(1), Atom(2), Atom(1)>>

-----------------------------------------------------------------------------
(* deepClone(obj, hash), src/main.js 2-21, and deepEqual(a, b),           *)
(* src/main.js 40-57.                                                     *)
(* heap[a] is the object with identity a: its kind (what its prototype    *)
(* and constructor are: Object, the class Point, Array, Date or RegExp),  *)
(* the time of a Date, the source and flags of a RegExp, and its own      *)
(* enumerable properties: keys, in enumeration order, and vals.  The      *)
(* caller builds objects, then calls deepClone or deepEqual.              *)

MaxGraphObjs == 2
MaxGraphProps == 3
MaxTreeProps == 4

PropKeys == {"a", "b"}
IndexKeys == {"0", "1", "2", "3", "4", "5"}

Ref(a) == [ty |-> "object", v |-> "", a |-> a]

NewRecord(kind) ==
    [kind |-> kind, time |-> 0, source |-> "", flags |-> "", keys |-> <<>>,
     vals |-> <<>>]
NewDate(t) == [NewRecord("Date") EXCEPT !.time = t]
NewRegExp(src, fl) == [NewRecord("RegExp") EXCEPT !.source = src, !.flags = fl]

\* What the caller makes graphs of; what it makes the operands of
\* deepEqual and the originals of deepClone of, and what it nests in them.
GraphTemplates == {NewRecord("Object"), NewRecord("Array")}
TreeTemplates ==
    {NewRecord("Object"), NewRecord("Array"), NewDate(5), NewDate(6),
     NewRegExp("x", "g"), NewRegExp("x", "i"), NewRegExp("y", "g")}
ChildTemplates == {NewRecord("Object")}

GraphPrims == {Num(1)}
TreePrims == {Num(1), NaN}
EqualPrims == {Num(1), Num(2), Str("1"), NaN, Null, Undefined}

\* typeof v
TypeOf(v) == IF v.ty = "null" THEN "object" ELSE v.ty

\* v is an object: not (v === null || typeof v !== 'object')
IsObject(v) == ~(v = Null \/ TypeOf(v) # "object")

\* a === b.
StrictEquals(x, y) == x = y /\ x # NaN

\* o[key] = val: a new key comes last in the enumeration order.
PropSet(o, key, val) ==
    [o EXCEPT !.keys = IF key \in DOMAIN o.vals THEN @ ELSE Append(@, key),
              !.vals = [k \in DOMAIN o.vals \cup {key} |->
                            IF k = key THEN val ELSE o.vals[k]]]

\* The number of properties of all objects together.
RECURSIVE TotalProps(_)
TotalProps(h) == IF h = <<>> THEN 0 ELSE Len(Head(h).keys) + TotalProps(Tail(h))

\* The caller makes a new object.
NewObject(tpl, maxObjs) ==
    /\ scOut.op = "none" /\ Len(heap) < maxObjs
    /\ heap' = Append(heap, tpl)
    /\ UNCHANGED scOut

\* key is a property the caller may add to o: a name o does not have yet,
\* or the next index of an array.
CanAdd(o, key) ==
    IF o.kind = "Array" THEN key = ToString(Len(o.keys))
    ELSE o.kind \in {"Object", "Point"} /\ key \in PropKeys \ DOMAIN o.vals

\* The caller sets a new property of an object, or pushes onto an array.
SetProp(a, key, val, maxProps) ==
    /\ scOut.op = "none" /\ TotalProps(heap) < maxProps
    /\ CanAdd(heap[a], key)
    /\ heap' = [heap EXCEPT ![a] = PropSet(@, key, val)]
    /\ UNCHANGED scOut

\* The caller sets a new property to a new object: { key: tpl }.
SetPropNew(a, key, tpl, maxProps) ==
    /\ scOut.op = "none" /\ TotalProps(heap) < maxProps
    /\ CanAdd(heap[a], key)
    /\ heap' = Append([heap EXCEPT ![a] = PropSet(@, key, Ref(Len(heap) + 1))],
                      tpl)
    /\ UNCHANGED scOut

\* hash.has(obj), and the variant that never finds obj.
HashNeverHas(hash, a) == FALSE
HashHas(hash, a) == a \in DOMAIN hash

\* hash.set(obj, clone)
HashSet(hash, a, c) ==
    [x \in DOMAIN hash \cup {a} |-> IF x = a THEN c ELSE hash[x]]

\* The new object of lines 7-10, before any property is copied: a Date of
\* the same time, an empty array, a RegExp of the same source and flags,
\* or an object with the prototype of the original.
EmptyClone(o) ==
    IF o.kind = "Date" THEN NewDate(o.time)
    ELSE IF o.kind = "Array" THEN NewRecord("Array")
    ELSE IF o.kind = "RegExp" THEN NewRegExp(o.source, o.flags)
    ELSE NewRecord(o.kind)

\* The call stack holds more frames than a graph of the model has objects.
StackLimit == MaxGraphObjs + MaxTreeProps + 3

\* deepClone(v, hash) with depth frames of the stack left, on the state
\* st = [heap, hash, overflow]: [st, res].  CloneProps is the loop of lines
\* 14-18 from the k-th key of src on.
RECURSIVE DeepCloneRec(_, _, _)
RECURSIVE CloneProps(_, _, _, _, _)
DeepCloneRec(st, v, depth) ==
    IF ~IsObject(v) THEN [st |-> st, res |-> v]
    ELSE IF HashHas(st.hash, v.a) THEN [st |-> st, res |-> Ref(st.hash[v.a])]
    ELSE IF depth = 0
    THEN [st |-> [st EXCEPT !.overflow = TRUE], res |-> Undefined]
    ELSE LET c == Len(st.heap) + 1
             st1 == [heap |-> Append(st.heap, EmptyClone(st.heap[v.a])),
                     hash |-> HashSet(st.hash, v.a, c),
                     overflow |-> st.overflow]
         IN [st |-> CloneProps(st1, v.a, c, 1, depth - 1), res |-> Ref(c)]

CloneProps(st, src, dst, k, depth) ==
    IF st.overflow \/ k > Len(st.heap[src].keys) THEN st
    ELSE LET key == st.heap[src].keys[k]
             r == DeepCloneRec(st, st.heap[src].vals[key], depth)
         IN CloneProps([r.st EXCEPT !.heap[dst] = PropSet(@, key, r.res)],
                       src, dst, k + 1, depth)

\* deepClone(v) with a fresh WeakMap.
DeepClone(h, v) ==
    DeepCloneRec([heap |-> h, hash |-> <<>>, overflow |-> FALSE], v, StackLimit)

\* a.toString() of a RegExp
RegExpToString(o) == "/" \o o.source \o "/" \o o.flags

\* keysB.includes(key)
Includes(keys, key) == \E i \in 1..Len(keys) : keys[i] = key

\* The loop of lines 52-54 over all of keysA, and the variant that does not
\* look whether b has the key.
RECURSIVE DeepEqual(_, _, _)
KeysMatchNoIncludes(h, x, y) ==
    \A i \in 1..Len(h[x.a].keys) :
        LET key == h[x.a].keys[i]
        IN key \in DOMAIN h[y.a].vals
               => DeepEqual(h, h[x.a].vals[key], h[y.a].vals[key])
KeysMatch(h, x, y) ==
    \A i \in 1..Len(h[x.a].keys) :
        LET key == h[x.a].keys[i]
        IN /\ Includes(h[y.a].keys, key)
           /\ DeepEqual(h, h[x.a].vals[key], h[y.a].vals[key])

\* deepEqual(x, y) on the heap h.
DeepEqual(h, x, y) ==
    IF StrictEquals(x, y) THEN TRUE
    ELSE IF x \in {Null, Undefined} \/ y \in {Null, Undefined}
            \/ TypeOf(x) # "object" \/ TypeOf(y) # "object" THEN FALSE
    ELSE IF h[x.a].kind # h[y.a].kind THEN FALSE
    ELSE IF h[x.a].kind = "Date" /\ h[y.a].kind = "Date"
    THEN h[x.a].time = h[y.a].time
    ELSE IF h[x.a].kind = "RegExp" /\ h[y.a].kind = "RegExp"
    THEN RegExpToString(h[x.a]) = RegExpToString(h[y.a])
    ELSE IF Len(h[x.a].keys) # Len(h[y.a].keys) THEN FALSE
    ELSE KeysMatch(h, x, y)

\* deepClone(v)
CallDeepClone(v) ==
    /\ scOut.op = "none"
    /\ LET r == DeepClone(heap, v)
       IN /\ heap' = r.st.heap
          /\ scOut' = [op |-> "deepClone", a |-> v, b |-> r.res,
                       overflow |-> r.st.overflow, n |-> Len(heap),
                       equal |-> FALSE]

\* testDeepClone, lines 115-124, for any original: the clone, and whether
\* it is deepEqual to the original.
TestDeepClone(v) ==
    /\ scOut.op = "none"
    /\ LET r == DeepClone(heap, v)
       IN /\ heap' = r.st.heap
          /\ scOut' = [op |-> "testDeepClone", a |-> v, b |-> r.res,
                       overflow |-> r.st.overflow, n |-> Len(heap),
                       equal |-> DeepEqual(r.st.heap, v, r.res)]

\* deepEqual(x, y)
CallDeepEqual(x, y) ==
    /\ scOut.op = "none"
    /\ scOut' = [op |-> "deepEqual", a |-> x, b |-> y, overflow |-> FALSE,
                 n |-> Len(heap), equal |-> DeepEqual(heap, x, y)]
    /\ UNCHANGED heap

Refs(h) == {Ref(a) : a \in 1..Len(h)}

\* The objects no property refers to: what the caller holds in variables.
Roots(h) ==
    {r \in Refs(h) : \A a \in 1..Len(h) : \A k \in DOMAIN h[a].vals :
                         h[a].vals[k] # r}

StructInit ==
    /\ heap = <<>> /\ scOut = [op |-> "none"]
    /\ OthersIdle(FALSE, FALSE, FALSE, FALSE, FALSE, TRUE)

\* The keys the caller may add to object a.
NewKeys(h, a) == {key \in PropKeys \cup IndexKeys : CanAdd(h[a], key)}

\* The caller builds any graph, cycles included, and clones part of it.
GraphNext ==
    \/ /\ scOut.op = "none"
       /\ \E tpl \in GraphTemplates : NewObject(tpl, MaxGraphObjs)
       /\ StructOnly
    \/ /\ scOut.op = "none"
       /\ TotalProps(heap) < MaxGraphProps
       /\ \E a \in 1..Len(heap) : \E key \in NewKeys(heap, a) :
             \E val \in GraphPrims \cup Refs(heap) :
                 SetProp(a, key, val, MaxGraphProps)
       /\ StructOnly
    \/ /\ scOut.op = "none"
       /\ \E v \in GraphPrims \cup Refs(heap) : CallDeepClone(v)
       /\ StructOnly

\* The last object the caller has given a property, 0 if there is none.
RECURSIVE LastFilled(_, _)
LastFilled(h, a) ==
    IF a = 0 THEN 0 ELSE IF h[a].keys # <<>> THEN a ELSE LastFilled(h, a - 1)

\* The objects the caller fills next: it fills them in the order it made
\* them, as an object literal is evaluated.
Fillable(h) == {a \in 1..Len(h) : a >= LastFilled(h, Len(h))}

\* The caller builds one or two values without cycles (a property holds a
\* primitive or a new object), then
\* clones the one or compares the two; a primitive stands in for a value
\* it did not build.
TreeNext ==
    \/ /\ scOut.op = "none"
       /\ Roots(heap) = Refs(heap)
       /\ \E tpl \in TreeTemplates : NewObject(tpl, 2)
       /\ StructOnly
    \/ /\ scOut.op = "none"
       /\ TotalProps(heap) < MaxTreeProps
       /\ \E a \in Fillable(heap) : \E key \in NewKeys(heap, a) :
             \E val \in TreePrims : SetProp(a, key, val, MaxTreeProps)
       /\ StructOnly
    \/ /\ scOut.op = "none"
       /\ TotalProps(heap) < MaxTreeProps
       /\ \E a \in Fillable(heap) : \E key \in NewKeys(heap, a) :
             \E tpl \in ChildTemplates : SetPropNew(a, key, tpl, MaxTreeProps)
       /\ StructOnly
    \/ /\ scOut.op = "none"
       /\ \E v \in TreePrims \cup Roots(heap) :
             /\ Roots(heap) \subseteq {v}
             /\ TestDeepClone(v)
       /\ StructOnly
    \/ /\ scOut.op = "none"
       /\ \E x, y \in (IF TotalProps(heap) = 0 THEN EqualPrims ELSE {})
                           \cup Roots(heap) :
             /\ Roots(heap) \subseteq {x, y}
             /\ CallDeepEqual(x, y)
       /\ StructOnly

SpecClone == StructInit /\ [][GraphNext]_vars

SpecEqual == StructInit /\ [][TreeNext]_vars

\* What x and y hold under the same key, for every key of x; a key y does
\* not have gives "missing".
Missing == [ty |-> "missing", v |-> "", a |-> 0]
Below(h, x, y) ==
    IF IsObject(x) /\ IsObject(y)
    THEN {<<h[x.a].vals[k],
            IF k \in DOMAIN h[y.a].vals THEN h[y.a].vals[k] ELSE Missing>> :
              k \in DOMAIN h[x.a].vals}
    ELSE {}

\* The pairs of values that the same access path reaches from x and from
\* y, for all access paths.
RECURSIVE SamePath(_, _)
SamePath(h, pairs) ==
    LET more == pairs \cup UNION {Below(h, p[1], p[2]) : p \in pairs}
    IN IF more = pairs THEN pairs ELSE SamePath(h, more)

\* C4: deepClone terminates on every graph, cycles and shared references
\* included, and the clone has the sharing of the original: access paths
\* that reach the same object of the original reach the same object of
\* the clone, paths that reach different objects reach different objects,
\* and no object of the clone is an object of the original.
C4_ClonePreservesSharing ==
    scOut.op = "deepClone" =>
        /\ ~scOut.overflow
        /\ LET corr == SamePath(heap, {<<scOut.a, scOut.b>>})
           IN /\ \A p \in corr :
                    IF IsObject(p[1])
                    THEN /\ IsObject(p[2]) /\ p[2].a > scOut.n
                         /\ DOMAIN heap[p[2].a].vals = DOMAIN heap[p[1].a].vals
                    ELSE p[2] = p[1]
              /\ \A p, q \in corr : (p[1] = q[1]) <=> (p[2] = q[2])

\* An object o with o.a === o, whose o.b holds an object that refers back
\* to o, was cloned: the clone c has c.a === c and c.b.a === c, and c is
\* not o.
C4_Witness ==
    /\ scOut.op = "deepClone" /\ scOut.a = Ref(1) /\ Len(heap) = 4
    /\ heap[1].kind = "Object" /\ heap[2].kind = "Array"
    /\ heap[1].vals = [k \in {"a", "b"} |-> IF k = "a" THEN Ref(1) ELSE Ref(2)]
    /\ heap[2].vals = [k \in {"0"} |-> Ref(1)]
    /\ scOut.b = Ref(3)
    /\ heap[3].vals = [k \in {"a", "b"} |-> IF k = "a" THEN Ref(3) ELSE Ref(4)]
    /\ heap[4].vals = [k \in {"0"} |-> Ref(3)]

\* C5: the clone of a value without cycles is deepEqual to the value, and
\* the clone of an object, and every object nested in it, is another
\* object than the one it was cloned from.
C5_CloneIsDeepEqual ==
    scOut.op = "testDeepClone" =>
        /\ scOut.equal
        /\ \A p \in SamePath(heap, {<<scOut.a, scOut.b>>}) :
              IsObject(p[1]) => IsObject(p[2]) /\ p[2] # p[1]

\* a and b are identical: a === b.
Identical(x, y) == x = y /\ ~(x.ty = "number" /\ x.v = "NaN")

\* The equality C6 states, on the sets of keys.
RECURSIVE RefEqual(_, _, _)
RefEqual(h, x, y) ==
    \/ Identical(x, y)
    \/ /\ x.ty = "object" /\ y.ty = "object"
       /\ h[x.a].kind = h[y.a].kind
       /\ CASE h[x.a].kind = "Date" -> h[x.a].time = h[y.a].time
            [] h[x.a].kind = "RegExp" ->
                   /\ h[x.a].source = h[y.a].source
                   /\ h[x.a].flags = h[y.a].flags
            [] OTHER ->
                   /\ DOMAIN h[x.a].vals = DOMAIN h[y.a].vals
                   /\ \A k \in DOMAIN h[x.a].vals :
                          RefEqual(h, h[x.a].vals[k], h[y.a].vals[k])

\* C6: deepEqual(a, b) is true exactly when a and b are identical, or are
\* objects of the same kind that are dates of the same time, regular
\* expressions of the same source and flags, or objects with the same set
\* of keys, in whatever order, and deepEqual values under every key.
C6_DeepEqualIsStructural ==
    scOut.op \in {"deepEqual", "testDeepClone"} =>
        (scOut.equal <=> RefEqual(heap, scOut.a, scOut.b))

\* The same keys in the other order, distinct objects under b: deepEqual
\* found { a: 1, b: {} } and { b: {}, a: 1 } equal.
C6_Witness ==
    /\ scOut.op = "deepEqual" /\ scOut.a = Ref(1) /\ scOut.b = Ref(2)
    /\ heap[1].keys = <<"a", "b">> /\ heap[2].keys = <<"b", "a">>
    /\ heap[1].vals["a"] = Num(1) /\ heap[2].vals["a"] = Num(1)
    /\ IsObject(heap[1].vals["b"]) /\ IsObject(heap[2].vals["b"])
    /\ heap[1].vals["b"] # heap[2].vals["b"]
    /\ scOut.equal

=============================================================================
